---------------------------- MODULE Spec2Model ----------------------------
(***************************************************************************)
(* Model of the two locally written functions of examples/landsat.ipynb:   *)
(* normalize_data (the sigmoid contrast curve) and combine_bands (alpha    *)
(* mask, 8-bit casts and packing into 32-bit RGBA pixels).                 *)
(*                                                                         *)
(* Arrays are records [dtype, shape, data]; data is the flat C-order       *)
(* buffer, so element [x, y] of an array of shape <<col, rows>> is         *)
(* data[x * rows + y + 1].                                                 *)
(*                                                                         *)
(* Elements of integer arrays are integers.  Elements of float arrays are  *)
(* records [nan, half, exact, arg].  A float f that is a multiple of 1/2   *)
(* has exact = TRUE and half = 2 * f.  Any other float of the model is a   *)
(* value 255 / (1 + exp(arg / ArgScale)) of the sigmoid, in a float32      *)
(* array rounded to the nearest float32: it has exact = FALSE, the integer *)
(* arg, and half = floor(2 * f).                                           *)
(* Raw samples are 16-bit sensor counts; in a float array they may also be *)
(* other multiples of 1/2, inside or outside the 16-bit range, or NaN.     *)
(*                                                                         *)
(* The notebook runs on a Python 2 kernel (kernelspec python2, 2.7.11) and  *)
(* has no "from __future__ import division": / on two integers is floor    *)
(* division.                                                               *)
(***************************************************************************)
EXTENDS Integers, Sequences, FiniteSets, TLC

(* ------------------------------ bounds -------------------------------- *)

\* Largest number of cells of a grid.
MaxCells == 2

\* Largest number of calls of normalize_data on the same array.
MaxCalls == 2

(* ------------------------- program constants -------------------------- *)

\* nodata=1 (the notebook's no-data sentinel, a global).
nodata == 1

\* min_val = 0
min_val == 0

\* max_val = 2**16 - 1
max_val == 65535

\* range_val = max_val - min_val
range_val == max_val - min_val

\* c = 40
c == 40

\* th = .125, kept as the fraction ThNum / ThDen.
ThNum == 1

ThDen == 8

\* norm * 255.0
Scale255 == 255

\* np.uint8 holds 0 .. Byte - 1; a cast to it reduces modulo Byte.
Byte == 256

\* np.where(..., 0, 255): the alpha of a cell that has data.
Opaque == 255

\* The exponent c * (th - norm) is kept as an integer number of units of
\* 1 / ArgScale.
ArgScale == ThDen * range_val

(* ------------------------------ np.exp -------------------------------- *)

\* LnHalf[j] = floor(ArgScale * ln((510 - j) / j)) for j = 1 .. 509, where
\* 510 = 2 * Scale255, so that for an integer argument X (in units of
\* 1 / ArgScale)
\*     2 * 255.0 / (1 + np.exp(X / ArgScale)) >= j   iff   X <= LnHalf[j].
\* The table is strictly decreasing.  For every multiple of 1/2 in
\* [-1200000, 200000] the level it gives, with Sat64 and Over64 below, is
\* that of the IEEE float64 evaluation of the expression.
LnHalf ==
  <<
     3267547, 2903113, 2689503, 2537642, 2419615, 2322988, 2241129, 2170078,
     2107281, 2050995, 1999976, 1953306, 1910287, 1870378, 1833148, 1798252,
     1765405, 1734374, 1704961, 1677000, 1650349, 1624886, 1600506, 1577115,
     1554633, 1532988, 1512117, 1491964, 1472477, 1453612, 1435328, 1417587,
     1400356, 1383604, 1367304, 1351430, 1335958, 1320867, 1306136, 1291748,
     1277686, 1263933, 1250475, 1237298, 1224390, 1211738, 1199332, 1187160,
     1175214, 1163484, 1151960, 1140636, 1129504, 1118555, 1107784, 1097184,
     1086749, 1076472, 1066348, 1056373, 1046541, 1036846, 1027286, 1017855,
     1008550, 999366, 990300, 981348, 972507, 963773, 955143, 946615,
     938185, 929851, 921609, 913458, 905396, 897418, 889525, 881712,
     873978, 866322, 858740, 851232, 843796, 836429, 829129, 821897,
     814729, 807624, 800581, 793598, 786675, 779809, 772999, 766244,
     759543, 752895, 746298, 739752, 733255, 726806, 720404, 714049,
     707739, 701473, 695251, 689072, 682934, 676837, 670780, 664762,
     658783, 652841, 646937, 641068, 635236, 629438, 623675, 617945,
     612248, 606583, 600950, 595349, 589778, 584236, 578725, 573242,
     567788, 562362, 556963, 551590, 546245, 540925, 535631, 530362,
     525117, 519897, 514700, 509527, 504376, 499248, 494142, 489058,
     483996, 478954, 473933, 468932, 463951, 458990, 454048, 449125,
     444221, 439335, 434466, 429616, 424783, 419967, 415167, 410385,
     405618, 400867, 396132, 391412, 386708, 382018, 377343, 372682,
     368036, 363403, 358783, 354178, 349585, 345005, 340438, 335883,
     331341, 326810, 322291, 317784, 313289, 308804, 304330, 299868,
     295415, 290973, 286541, 282120, 277708, 273305, 268912, 264528,
     260153, 255787, 251430, 247081, 242741, 238409, 234084, 229768,
     225459, 221158, 216864, 212577, 208297, 204024, 199758, 195498,
     191244, 186997, 182756, 178521, 174291, 170067, 165849, 161636,
     157428, 153225, 149027, 144834, 140645, 136461, 132281, 128105,
     123933, 119766, 115602, 111441, 107284, 103131, 98980, 94833,
     90689, 86548, 82409, 78273, 74139, 70007, 65878, 61751,
     57625, 53502, 49380, 45260, 41141, 37023, 32906, 28791,
     24676, 20562, 16449, 12336, 8224, 4112, 0, -4113,
     -8225, -12337, -16450, -20563, -24677, -28792, -32907, -37024,
     -41142, -45261, -49381, -53503, -57626, -61752, -65879, -70008,
     -74140, -78274, -82410, -86549, -90690, -94834, -98981, -103132,
     -107285, -111442, -115603, -119767, -123934, -128106, -132282, -136462,
     -140646, -144835, -149028, -153226, -157429, -161637, -165850, -170068,
     -174292, -178522, -182757, -186998, -191245, -195499, -199759, -204025,
     -208298, -212578, -216865, -221159, -225460, -229769, -234085, -238410,
     -242742, -247082, -251431, -255788, -260154, -264529, -268913, -273306,
     -277709, -282121, -286542, -290974, -295416, -299869, -304331, -308805,
     -313290, -317785, -322292, -326811, -331342, -335884, -340439, -345006,
     -349586, -354179, -358784, -363404, -368037, -372683, -377344, -382019,
     -386709, -391413, -396133, -400868, -405619, -410386, -415168, -419968,
     -424784, -429617, -434467, -439336, -444222, -449126, -454049, -458991,
     -463952, -468933, -473934, -478955, -483997, -489059, -494143, -499249,
     -504377, -509528, -514701, -519898, -525118, -530363, -535632, -540926,
     -546246, -551591, -556964, -562363, -567789, -573243, -578726, -584237,
     -589779, -595350, -600951, -606584, -612249, -617946, -623676, -629439,
     -635237, -641069, -646938, -652842, -658784, -664763, -670781, -676838,
     -682935, -689073, -695252, -701474, -707740, -714050, -720405, -726807,
     -733256, -739753, -746299, -752896, -759544, -766245, -773000, -779810,
     -786676, -793599, -800582, -807625, -814730, -821898, -829130, -836430,
     -843797, -851233, -858741, -866323, -873979, -881713, -889526, -897419,
     -905397, -913459, -921610, -929852, -938186, -946616, -955144, -963774,
     -972508, -981349, -990301, -999367, -1008551, -1017856, -1027287, -1036847,
     -1046542, -1056374, -1066349, -1076473, -1086750, -1097185, -1107785, -1118556,
     -1129505, -1140637, -1151961, -1163485, -1175215, -1187161, -1199333, -1211739,
     -1224391, -1237299, -1250476, -1263934, -1277687, -1291749, -1306137, -1320868,
     -1335959, -1351431, -1367305, -1383605, -1400357, -1417588, -1435329, -1453613,
     -1472478, -1491965, -1512118, -1532989, -1554634, -1577116, -1600507, -1624887,
     -1650350, -1677001, -1704962, -1734375, -1765406, -1798253, -1833149, -1870379,
     -1910288, -1953307, -1999977, -2050996, -2107282, -2170079, -2241130, -2322989,
     -2419616, -2537643, -2689504, -2903114, -3267548
  >>

\* 1 + np.exp(X / ArgScale) is the float64 1.0, and norm * 255.0 the float64
\* 255.0, exactly when exp(X / ArgScale) <= 2^-53, that is when X <= Sat64,
\* Sat64 = floor(ArgScale * ln(2^-53)).  No sample in [0, 65535] reaches it.
Sat64 == -19260370

\* np.exp(X / ArgScale) overflows to the float64 inf, and norm * 255.0 is
\* the float64 0.0, exactly when X > Over64,
\* Over64 = floor(ArgScale * ln(the largest float64)).  No sample in
\* [0, 65535] reaches it.
Over64 == 372124880

RECURSIVE HalfSearch(_, _, _, _)
\* The largest j in lo .. hi with j = 0 or X <= T[j], for a strictly
\* decreasing table T.
HalfSearch(T, X, lo, hi) ==
  IF lo = hi THEN lo
  ELSE LET mid == (lo + hi + 1) \div 2
       IN  IF X <= T[mid] THEN HalfSearch(T, X, mid, hi)
                          ELSE HalfSearch(T, X, lo, mid - 1)

\* floor(2 * 255.0 / (1 + np.exp(X / ArgScale))), in 0 .. 509, for
\* Sat64 < X <= Over64.
HalfLevel(X) == HalfSearch(LnHalf, X, 0, Len(LnHalf))

(* ------------------------- float32 rounding --------------------------- *)

\* A store into a float32 array rounds the float64 y = 255.0 / (1 +
\* np.exp(X / ArgScale)) to the nearest float32, f32(y).  For j = 1 .. 510
\*     f32(y) >= j / 2   iff   y >= j / 2 - u / 2   iff   X <= LnHalf32[j],
\* where u is the distance from j / 2 to the float32 below it:
\* LnHalf32[j] = floor(ArgScale * ln((255 - m) / m)) for m = j / 2 - u / 2.
\* The table is strictly decreasing; LnHalf32[510] is the argument from
\* which on the stored value is 255.0.
LnHalf32 ==
  <<
     3267547, 2903113, 2689503, 2537642, 2419615, 2322988, 2241129, 2170078,
     2107281, 2050995, 1999976, 1953306, 1910287, 1870378, 1833149, 1798252,
     1765405, 1734374, 1704961, 1677000, 1650349, 1624886, 1600506, 1577115,
     1554633, 1532988, 1512117, 1491964, 1472477, 1453612, 1435328, 1417587,
     1400356, 1383605, 1367304, 1351430, 1335958, 1320867, 1306136, 1291749,
     1277686, 1263933, 1250475, 1237298, 1224390, 1211738, 1199332, 1187160,
     1175214, 1163484, 1151960, 1140636, 1129504, 1118555, 1107784, 1097184,
     1086749, 1076472, 1066348, 1056373, 1046541, 1036846, 1027286, 1017856,
     1008550, 999366, 990300, 981348, 972507, 963773, 955143, 946615,
     938185, 929851, 921609, 913458, 905396, 897418, 889525, 881712,
     873978, 866322, 858740, 851232, 843796, 836429, 829130, 821897,
     814729, 807624, 800581, 793598, 786675, 779809, 772999, 766244,
     759543, 752895, 746298, 739752, 733255, 726806, 720404, 714049,
     707739, 701473, 695251, 689072, 682934, 676837, 670780, 664762,
     658783, 652841, 646937, 641069, 635236, 629438, 623675, 617945,
     612248, 606583, 600950, 595349, 589778, 584237, 578725, 573242,
     567788, 562362, 556963, 551590, 546245, 540925, 535631, 530362,
     525117, 519897, 514700, 509527, 504376, 499248, 494142, 489058,
     483996, 478954, 473933, 468932, 463952, 458990, 454048, 449125,
     444221, 439335, 434467, 429616, 424783, 419967, 415167, 410385,
     405618, 400867, 396132, 391412, 386708, 382018, 377343, 372682,
     368036, 363403, 358784, 354178, 349585, 345005, 340438, 335883,
     331341, 326810, 322292, 317784, 313289, 308804, 304330, 299868,
     295415, 290973, 286541, 282120, 277708, 273305, 268912, 264528,
     260153, 255787, 251430, 247081, 242741, 238409, 234084, 229768,
     225459, 221158, 216864, 212577, 208297, 204024, 199758, 195498,
     191244, 186997, 182756, 178521, 174291, 170067, 165849, 161636,
     157428, 153225, 149027, 144834, 140645, 136461, 132281, 128105,
     123933, 119766, 115602, 111441, 107284, 103131, 98980, 94833,
     90689, 86548, 82409, 78273, 74139, 70007, 65878, 61751,
     57625, 53502, 49380, 45260, 41141, 37023, 32906, 28791,
     24676, 20562, 16449, 12336, 8224, 4112, 0, -4112,
     -8225, -12337, -16450, -20563, -24677, -28792, -32907, -37024,
     -41142, -45261, -49381, -53503, -57626, -61752, -65879, -70008,
     -74140, -78274, -82410, -86548, -90690, -94834, -98981, -103132,
     -107285, -111442, -115603, -119767, -123934, -128106, -132282, -136462,
     -140646, -144835, -149028, -153226, -157429, -161637, -165850, -170068,
     -174292, -178522, -182757, -186998, -191245, -195499, -199758, -204025,
     -208298, -212578, -216865, -221159, -225460, -229769, -234085, -238410,
     -242742, -247082, -251431, -255788, -260154, -264529, -268913, -273306,
     -277708, -282121, -286542, -290974, -295416, -299868, -304331, -308805,
     -313290, -317785, -322292, -326811, -331342, -335884, -340439, -345006,
     -349586, -354179, -358784, -363404, -368036, -372683, -377344, -382019,
     -386709, -391413, -396133, -400868, -405619, -410385, -415168, -419968,
     -424784, -429617, -434467, -439336, -444222, -449126, -454049, -458991,
     -463952, -468933, -473934, -478955, -483997, -489059, -494143, -499249,
     -504377, -509527, -514701, -519898, -525118, -530363, -535632, -540926,
     -546246, -551591, -556963, -562362, -567789, -573243, -578726, -584237,
     -589779, -595350, -600951, -606584, -612249, -617946, -623676, -629439,
     -635237, -641069, -646938, -652842, -658784, -664763, -670781, -676838,
     -682935, -689073, -695252, -701474, -707740, -714050, -720405, -726807,
     -733256, -739753, -746299, -752896, -759544, -766245, -773000, -779809,
     -786676, -793599, -800582, -807625, -814730, -821898, -829130, -836429,
     -843796, -851233, -858741, -866323, -873979, -881713, -889525, -897419,
     -905396, -913459, -921610, -929851, -938186, -946616, -955144, -963774,
     -972507, -981349, -990301, -999367, -1008551, -1017856, -1027287, -1036847,
     -1046541, -1056374, -1066349, -1076473, -1086749, -1097185, -1107785, -1118556,
     -1129505, -1140637, -1151961, -1163484, -1175215, -1187161, -1199332, -1211739,
     -1224391, -1237299, -1250476, -1263934, -1277687, -1291749, -1306137, -1320868,
     -1335959, -1351431, -1367305, -1383605, -1400357, -1417588, -1435329, -1453613,
     -1472478, -1491965, -1512118, -1532989, -1554634, -1577116, -1600506, -1624887,
     -1650350, -1677000, -1704961, -1734374, -1765406, -1798252, -1833149, -1870379,
     -1910288, -1953306, -1999976, -2050995, -2107281, -2170078, -2241129, -2322988,
     -2419614, -2537641, -2689501, -2903110, -3267540, -9083029
  >>

\* For j = 1 .. 509
\*     f32(y) > j / 2   iff   y > j / 2 + u / 2   iff   X <= LnAbove32[j],
\* where u is the distance from j / 2 to the float32 above it:
\* LnAbove32[j] = floor(ArgScale * ln((255 - m) / m)) for m = j / 2 + u / 2.
\* So f32(y) = j / 2 exactly for LnAbove32[j] < X <= LnHalf32[j].  For every
\* multiple of 1/2 in [-1200000, 200000] the two tables give the float32 the
\* IEEE evaluation stores; below the saturation at 255.0 one of these samples is
\* stored as a multiple of 1/2: 13432.5, as 245.0.
LnAbove32 ==
  <<
     3267547, 2903113, 2689503, 2537642, 2419615, 2322988, 2241129, 2170078,
     2107281, 2050995, 1999976, 1953306, 1910287, 1870378, 1833148, 1798252,
     1765405, 1734374, 1704961, 1677000, 1650349, 1624886, 1600506, 1577115,
     1554633, 1532988, 1512117, 1491964, 1472477, 1453612, 1435328, 1417587,
     1400356, 1383604, 1367304, 1351430, 1335958, 1320867, 1306136, 1291748,
     1277686, 1263933, 1250475, 1237298, 1224390, 1211738, 1199332, 1187160,
     1175214, 1163483, 1151960, 1140636, 1129504, 1118555, 1107784, 1097184,
     1086748, 1076472, 1066348, 1056373, 1046540, 1036846, 1027286, 1017855,
     1008550, 999366, 990300, 981348, 972507, 963773, 955143, 946615,
     938185, 929850, 921609, 913458, 905396, 897418, 889524, 881712,
     873978, 866322, 858740, 851232, 843796, 836429, 829129, 821897,
     814729, 807624, 800581, 793598, 786675, 779809, 772999, 766244,
     759543, 752895, 746298, 739752, 733255, 726806, 720404, 714049,
     707739, 701473, 695251, 689072, 682934, 676837, 670780, 664762,
     658783, 652841, 646937, 641068, 635236, 629438, 623675, 617945,
     612248, 606583, 600950, 595349, 589778, 584236, 578725, 573242,
     567788, 562361, 556962, 551590, 546245, 540925, 535631, 530362,
     525117, 519897, 514700, 509527, 504376, 499248, 494142, 489058,
     483996, 478954, 473933, 468932, 463951, 458990, 454048, 449125,
     444221, 439335, 434466, 429616, 424783, 419967, 415167, 410385,
     405618, 400867, 396132, 391412, 386708, 382018, 377343, 372682,
     368036, 363403, 358783, 354178, 349585, 345005, 340438, 335883,
     331341, 326810, 322291, 317784, 313289, 308804, 304330, 299868,
     295415, 290973, 286541, 282120, 277707, 273305, 268912, 264528,
     260153, 255787, 251430, 247081, 242741, 238409, 234084, 229768,
     225459, 221158, 216864, 212577, 208297, 204024, 199757, 195498,
     191244, 186997, 182756, 178521, 174291, 170067, 165849, 161636,
     157428, 153225, 149027, 144834, 140645, 136461, 132281, 128105,
     123933, 119766, 115602, 111441, 107284, 103131, 98980, 94833,
     90689, 86547, 82409, 78273, 74139, 70007, 65878, 61751,
     57625, 53502, 49380, 45260, 41141, 37023, 32906, 28791,
     24676, 20562, 16449, 12336, 8224, 4111, -1, -4113,
     -8225, -12337, -16450, -20563, -24677, -28792, -32907, -37024,
     -41142, -45261, -49381, -53503, -57627, -61752, -65879, -70008,
     -74140, -78274, -82410, -86549, -90690, -94834, -98982, -103132,
     -107285, -111442, -115603, -119767, -123934, -128106, -132282, -136462,
     -140646, -144835, -149028, -153226, -157429, -161637, -165850, -170068,
     -174292, -178522, -182757, -186998, -191245, -195499, -199759, -204025,
     -208298, -212578, -216865, -221159, -225460, -229769, -234085, -238410,
     -242742, -247082, -251431, -255788, -260154, -264529, -268913, -273306,
     -277709, -282121, -286543, -290974, -295416, -299869, -304331, -308805,
     -313290, -317785, -322293, -326811, -331342, -335884, -340439, -345006,
     -349586, -354179, -358785, -363404, -368037, -372683, -377344, -382019,
     -386709, -391414, -396133, -400868, -405619, -410386, -415168, -419968,
     -424784, -429617, -434468, -439336, -444222, -449126, -454049, -458991,
     -463953, -468933, -473934, -478955, -483997, -489059, -494144, -499249,
     -504377, -509528, -514701, -519898, -525118, -530363, -535632, -540926,
     -546246, -551592, -556964, -562363, -567789, -573243, -578726, -584238,
     -589779, -595350, -600951, -606584, -612249, -617946, -623676, -629439,
     -635237, -641070, -646938, -652842, -658784, -664763, -670781, -676838,
     -682935, -689073, -695252, -701475, -707740, -714050, -720405, -726807,
     -733256, -739753, -746299, -752896, -759544, -766245, -773000, -779810,
     -786676, -793599, -800582, -807625, -814730, -821898, -829131, -836430,
     -843797, -851233, -858742, -866323, -873979, -881713, -889526, -897419,
     -905397, -913460, -921610, -929852, -938186, -946616, -955144, -963774,
     -972508, -981349, -990301, -999367, -1008551, -1017857, -1027287, -1036848,
     -1046542, -1056374, -1066349, -1076473, -1086750, -1097185, -1107786, -1118557,
     -1129505, -1140638, -1151962, -1163485, -1175215, -1187161, -1199333, -1211739,
     -1224391, -1237299, -1250476, -1263934, -1277687, -1291750, -1306138, -1320868,
     -1335959, -1351431, -1367306, -1383606, -1400357, -1417588, -1435329, -1453614,
     -1472479, -1491965, -1512119, -1532989, -1554634, -1577116, -1600507, -1624888,
     -1650350, -1677001, -1704962, -1734375, -1765407, -1798254, -1833150, -1870380,
     -1910289, -1953308, -1999978, -2050997, -2107283, -2170080, -2241131, -2322990,
     -2419618, -2537645, -2689506, -2903118, -3267556
  >>

\* f32(y) = 0.0 iff y <= 2^-150 iff X > Under32,
\* Under32 = floor(ArgScale * ln(255 * 2^150 - 1)).
Under32 == 57415654

\* floor(2 * f32(y)), in 0 .. 510.
HalfLevel32(X) == HalfSearch(LnHalf32, X, 0, Len(LnHalf32))

\* Whether f32(y) is a multiple of 1/2.
IsHalf32(X) ==
  LET h == HalfLevel32(X)
  IN  IF h = 0 THEN X > Under32
      ELSE IF h = Len(LnHalf32) THEN TRUE
      ELSE X > LnAbove32[h]

(* --------------------------- array elements --------------------------- *)

DTypes == {"uint16", "float32", "float64"}

IsFloat(dt) == dt \in {"float32", "float64"}

\* The float t / 2.
FltHalf(t) == [nan |-> FALSE, half |-> t, exact |-> TRUE, arg |-> 0]

\* The float of integer value n.
Flt(n) == FltHalf(2 * n)

\* The float64 255.0 / (1 + np.exp(X / ArgScale)): 255.0 from Sat64 on, 0.0
\* beyond Over64, else no multiple of 1/2.
Frac(X) ==
  IF X <= Sat64 THEN Flt(Scale255)
  ELSE IF X > Over64 THEN Flt(0)
  ELSE [nan |-> FALSE, half |-> HalfLevel(X), exact |-> FALSE, arg |-> X]

\* The float32 nearest to that float64.
Frac32(X) ==
  IF IsHalf32(X) THEN FltHalf(HalfLevel32(X))
  ELSE [nan |-> FALSE, half |-> HalfLevel32(X), exact |-> FALSE, arg |-> X]

NaN == [nan |-> TRUE, half |-> 0, exact |-> FALSE, arg |-> 0]

\* The zero np.zeros_like fills with.
Zero(dt) == IF IsFloat(dt) THEN Flt(0) ELSE 0

\* Number of elements of an array of this shape.
RECURSIVE Size(_)
Size(shape) == IF shape = <<>> THEN 1 ELSE Head(shape) * Size(Tail(shape))

\* np.zeros_like(agg): a new array of agg's dtype and shape.
zeros_like(arr) ==
  [dtype |-> arr.dtype, shape |-> arr.shape,
   data |-> [i \in 1 .. Size(arr.shape) |-> Zero(arr.dtype)]]

(* --------------------------- normalize_data --------------------------- *)

\* norm = (val - min_val) / range_val, as the integer 2 * range_val * norm.
\* For an element of an integer array both operands are integers and / is
\* Python 2's floor division; for a float element it is the true quotient.
NormTwice(dt, val) ==
  IF IsFloat(dt) THEN val.half - 2 * min_val
                 ELSE 2 * range_val * ((val - min_val) \div range_val)

\* Faulty variant of ExpArg: the threshold th left out, c * (0 - norm).
ExpArgNoThreshold(n2) == (c * (0 - ThDen * n2)) \div 2

\* Faulty variant of ExpArg: the difference the other way round, c * (norm - th).
ExpArgFlipped(n2) == (c * (ThDen * n2 - 2 * ThNum * range_val)) \div 2

\* c * (th - norm) for n2 = 2 * range_val * norm, as an integer number of
\* units of 1 / ArgScale (ThDen is even, so the division is exact).
ExpArg(n2) == (c * (2 * ThNum * range_val - ThDen * n2)) \div 2

\* norm * 255.0, the float64 value of the right-hand side of the store:
\* NaN for a NaN sample, else [nan |-> FALSE, arg |-> the exponent].
Sigmoid255(dt, val) ==
  IF IsFloat(dt) /\ val.nan
    THEN [nan |-> TRUE, arg |-> 0]
    ELSE [nan |-> FALSE, arg |-> ExpArg(NormTwice(dt, val))]

\* Faulty variant of StoreElem: out is always a float64 array (np.zeros(agg.shape)),
\* so nothing is rounded to float32 or truncated by the store.
StoreElemFloat64(dt, f) ==
  IF f.nan THEN NaN
  ELSE IF IsFloat(dt) THEN Frac(f.arg)
  ELSE Frac(f.arg).half \div 2

\* out[x, y] = f: the float64 f converted to the dtype of out.  An integer
\* array keeps the integer part, a float32 array the nearest float32.
StoreElem(dt, f) ==
  IF ~IsFloat(dt) THEN Frac(f.arg).half \div 2
  ELSE IF f.nan THEN NaN
  ELSE IF dt = "float32" THEN Frac32(f.arg)
  ELSE Frac(f.arg)

RECURSIVE NormLoop(_, _, _, _, _)
\* for x in range(col): for y in range(rows): out[x, y] = ...
\* on the heap m, reading array src and writing array dst.
NormLoop(m, src, dst, x, y) ==
  LET col  == m[src].shape[1]
      rows == m[src].shape[2]
      i    == x * rows + y + 1
  IN  IF x >= col THEN m
      ELSE IF y >= rows THEN NormLoop(m, src, dst, x + 1, 0)
      ELSE NormLoop([m EXCEPT ![dst].data[i] =
                       StoreElem(m[dst].dtype, Sigmoid255(m[src].dtype, m[src].data[i]))],
                    src, dst, x, y + 1)

\* Faulty variant of normalize_data: out = agg, the curve is applied in
\* place.
normalize_data_in_place(m, agg) ==
  [mem |-> NormLoop(m, agg, agg, 0, 0), ret |-> agg]

\* normalize_data(agg) on the heap m: the heap after the call and the id of
\* the returned array.  out = np.zeros_like(agg) is a new array, at the end
\* of the heap.
normalize_data(m, agg) ==
  LET m1  == Append(m, zeros_like(m[agg]))
      out == Len(m1)
  IN  [mem |-> NormLoop(m1, agg, out, 0, 0), ret |-> out]

(* ------------------------------- casts -------------------------------- *)

\* What a cast of NaN to uint8 can give (undefined in C): the scalar
\* conversion gives 0, a saturating vector conversion 255.
NaNCastOutcomes == {0, Byte - 1}

\* Faulty variant of CastU8: astype(np.int8), which wraps at 128.
CastI8(dt, e, p) ==
  LET v == IF IsFloat(dt) THEN (IF e.nan THEN p ELSE e.half \div 2) ELSE e
  IN  ((v + 128) % Byte) - 128

\* astype(np.uint8) of one element; p is the outcome of a NaN cast.
CastU8(dt, e, p) ==
  IF IsFloat(dt) THEN IF e.nan THEN p ELSE (e.half \div 2) % Byte
                 ELSE e % Byte

\* arr.astype(np.uint8): a new array; ps[i] is the outcome for a NaN at i.
astype_uint8(arr, ps) ==
  [dtype |-> "uint8", shape |-> arr.shape,
   data |-> [i \in 1 .. Size(arr.shape) |-> CastU8(arr.dtype, arr.data[i], ps[i])]]

\* The outcome choices for the cells of an array.
NaNChoices(arr) == [1 .. Size(arr.shape) -> NaNCastOutcomes]

(* --------------------------- combine_bands ---------------------------- *)

\* np.isnan of one element.
IsNanElem(dt, e) == IsFloat(dt) /\ e.nan

\* e <= n for an integer n; a comparison with NaN is false.
LeqElem(dt, e, n) ==
  IF IsFloat(dt)
    THEN ~e.nan /\ (e.half < 2 * n \/ (e.half = 2 * n /\ e.exact))
    ELSE e <= n

\* Faulty variant of AlphaElem: r < nodata in place of r <= nodata.
AlphaElemStrict(dt, e) ==
  IF IsNanElem(dt, e) \/ LeqElem(dt, e, nodata - 1) THEN 0 ELSE Opaque

\* np.where(np.logical_or(np.isnan(r), r <= nodata), 0, 255) at one element.
AlphaElem(dt, e) ==
  IF IsNanElem(dt, e) \/ LeqElem(dt, e, nodata) THEN 0 ELSE Opaque

\* Faulty variant of AlphaMask: the mask is computed after r = normalize_data(r)
\* .astype(np.uint8), from the normalized red channel.
AlphaMaskAfterNormalize(arr) ==
  LET res  == normalize_data(<<arr>>, 1)
      chan == astype_uint8(res.mem[res.ret], [i \in 1 .. Size(arr.shape) |-> 0])
  IN  [dtype |-> "uint8", shape |-> arr.shape,
       data |-> [i \in 1 .. Size(arr.shape) |->
                   AlphaElem(chan.dtype, chan.data[i]) % Byte]]

\* a = (np.where(...)).astype(np.uint8)
AlphaMask(arr) ==
  [dtype |-> "uint8", shape |-> arr.shape,
   data |-> [i \in 1 .. Size(arr.shape) |-> AlphaElem(arr.dtype, arr.data[i]) % Byte]]

\* Faulty variant of StackChannel: np.dstack([a, b, g, r]).
StackChannelReversed(i, n) == n - ((i - 1) % n)

\* The array holding element i of the buffer of np.dstack(arrs), and the
\* cell of that array it comes from: the channels of a cell are adjacent.
StackChannel(i, n) == ((i - 1) % n) + 1

StackCell(i, n) == ((i - 1) \div n) + 1

\* np.dstack(arrs) of 2-D arrays of one shape: shape + <<Len(arrs)>>.
dstack(arrs) ==
  LET n == Len(arrs)
  IN  [dtype |-> arrs[1].dtype, shape |-> arrs[1].shape \o <<n>>,
       data |-> [i \in 1 .. Size(arrs[1].shape) * n |->
                   arrs[StackChannel(i, n)].data[StackCell(i, n)]]]

\* The uint32 made of four adjacent bytes, b0 at the lowest address, on a
\* little-endian machine, as two 16-bit halves.
Word(b0, b1, b2, b3) == [lo |-> b0 + Byte * b1, hi |-> b2 + Byte * b3]

\* arr.view(np.uint32) of a uint8 array: four bytes of the last axis per
\* element.
view_uint32(arr) ==
  LET last == Len(arr.shape)
      k    == arr.shape[last] \div 4
  IN  [dtype |-> "uint32", shape |-> [arr.shape EXCEPT ![last] = k],
       data |-> [i \in 1 .. Size(arr.shape) \div 4 |->
                   Word(arr.data[4 * i - 3], arr.data[4 * i - 2],
                        arr.data[4 * i - 1], arr.data[4 * i])]]

\* arr.reshape(shape): the same buffer under another shape.
reshape(arr, shape) == [arr EXCEPT !.shape = shape]

\* Faulty variant of PackImage: the reshape left out.
PackImageNoReshape(ar, ag, ab, aa) == view_uint32(dstack(<<ar, ag, ab, aa>>))

\* img = np.dstack([r, g, b, a]).view(np.uint32).reshape(r.shape)
PackImage(ar, ag, ab, aa) ==
  reshape(view_uint32(dstack(<<ar, ag, ab, aa>>)), ar.shape)

(* ------------------------------- state -------------------------------- *)

VARIABLES
  mem,      \* the heap: the arrays allocated so far, an array's id is its index
  agg,      \* normalizer runs: id of the array passed to normalize_data
  outs,     \* normalizer runs: ids of the arrays normalize_data returned
  chans,    \* normalizer runs: ids of their astype(np.uint8) casts
  bands,    \* combine_bands runs: ids of the caller's raw arrays
  r, g, b,  \* combine_bands' arguments, rebound to the normalized channels
  a,        \* combine_bands' alpha mask (0: not yet bound)
  img,      \* combine_bands' packed image (0: not yet bound)
  pc        \* combine_bands' position

vars == <<mem, agg, outs, chans, bands, r, g, b, a, img, pc>>

\* Shapes of 2-D arrays of at most MaxCells cells, empty ones included.
Shapes ==
  {s \in {<<p, q>> : p \in 0 .. MaxCells, q \in 0 .. MaxCells} :
     s[1] * s[2] <= MaxCells}

\* The raw samples an array of dtype dt is drawn from: the integer sensor
\* counts ints and, in a float array, the floats t / 2 for t in halves and,
\* when nans is TRUE, NaN.
SamplesOf(dt, ints, halves, nans) ==
  IF IsFloat(dt)
    THEN {Flt(n) : n \in ints} \cup {FltHalf(t) : t \in halves}
           \cup (IF nans THEN {NaN} ELSE {})
    ELSE ints

\* The arrays of dtype dt and shape s over these samples.
ArraysOf(dt, s, ints, halves, nans) ==
  {[dtype |-> dt, shape |-> s, data |-> d] :
     d \in [1 .. Size(s) -> SamplesOf(dt, ints, halves, nans)]}

\* Sensor counts of the normalizer runs: both ends of the 16-bit range, the
\* sentinel and its neighbours, and the counts around the midpoint
\* th * range_val = 8191.875 of the curve.
NormSamples == {0, 1, 2, 8191, 8192, 32768, 65535}

\* Non-integer samples of the float arrays of the normalizer runs, as twice
\* their value: 1.5 and 13432.5.
NormHalves == {3, 26865}

\* Samples outside the 16-bit range, which normalize_data does not clamp,
\* of the float arrays of the normalizer runs, as twice their value:
\* -1154698.5 (np.exp overflows), -1154698, -200000 (stored as 0.0 in a
\* float32 array), -1, 65535.5, 65536 and 70000 (norm * 255.0 is 255.0).
NormOutside == {-2309397, -2309396, -400000, -2, 131071, 131072, 140000}

\* Sensor counts of the three bands of the combine_bands runs.  NaN is drawn
\* in the red band only, the band the mask is computed from.
RedSamples == {0, 1, 2, 65535}

GreenSamples == {1, 8192}

BlueSamples == {1, 4096}

(* ------------------------- normalizer runs ---------------------------- *)

\* A caller holds one array and calls normalize_data(agg).astype(np.uint8)
\* on it up to MaxCalls times.
InitNorm ==
  /\ \E dt \in DTypes, s \in Shapes :
       \E arr \in ArraysOf(dt, s, NormSamples, NormHalves \cup NormOutside, TRUE) : mem = <<arr>>
  /\ agg = 1
  /\ outs = <<>>
  /\ chans = <<>>
  /\ bands = <<>>
  /\ r = 0 /\ g = 0 /\ b = 0 /\ a = 0 /\ img = 0
  /\ pc = "idle"

\* normalize_data(agg)
CallNormalize ==
  /\ agg # 0
  /\ Len(outs) < MaxCalls
  /\ Len(chans) = Len(outs)
  /\ LET res == normalize_data(mem, agg)
     IN  /\ mem' = res.mem
         /\ outs' = Append(outs, res.ret)
  /\ UNCHANGED <<agg, chans, bands, r, g, b, a, img, pc>>

\* (...).astype(np.uint8) of the array the last call returned
CastOutput ==
  /\ Len(chans) < Len(outs)
  /\ \E ps \in NaNChoices(mem[outs[Len(outs)]]) :
       mem' = Append(mem, astype_uint8(mem[outs[Len(outs)]], ps))
  /\ chans' = Append(chans, Len(mem) + 1)
  /\ UNCHANGED <<agg, outs, bands, r, g, b, a, img, pc>>

NextNorm == CallNormalize \/ CastOutput

SpecNorm == InitNorm /\ [][NextNorm]_vars

(* ------------------------ combine_bands runs -------------------------- *)

\* r, g, b = [cvs.raster(b).data for b in (...)]; combine_bands(r, g, b):
\* three raw arrays of one dtype and one shape.
Init ==
  /\ \E dt \in DTypes, s \in Shapes :
       \E ar \in ArraysOf(dt, s, RedSamples, {}, TRUE),
          ag \in ArraysOf(dt, s, GreenSamples, {}, FALSE),
          ab \in ArraysOf(dt, s, BlueSamples, {}, FALSE) : mem = <<ar, ag, ab>>
  /\ bands = <<1, 2, 3>>
  /\ r = 1 /\ g = 2 /\ b = 3
  /\ a = 0 /\ img = 0
  /\ pc = "alpha"
  /\ agg = 0
  /\ outs = <<>>
  /\ chans = <<>>

\* a = (np.where(np.logical_or(np.isnan(r), r <= nodata), 0, 255)).astype(np.uint8)
ComputeAlpha ==
  /\ pc = "alpha"
  /\ mem' = Append(mem, AlphaMask(mem[r]))
  /\ a' = Len(mem) + 1
  /\ pc' = "norm_r"
  /\ UNCHANGED <<agg, outs, chans, bands, r, g, b, img>>

\* The heaps after band = (normalize_data(band)).astype(np.uint8); the new
\* channel is the last array of each.
NormalizedChannel(m, band) ==
  LET res == normalize_data(m, band)
  IN  {Append(res.mem, astype_uint8(res.mem[res.ret], ps)) :
         ps \in NaNChoices(res.mem[res.ret])}

\* r = (normalize_data(r)).astype(np.uint8)
NormalizeRed ==
  /\ pc = "norm_r"
  /\ mem' \in NormalizedChannel(mem, r)
  /\ r' = Len(mem')
  /\ pc' = "norm_g"
  /\ UNCHANGED <<agg, outs, chans, bands, g, b, a, img>>

\* g = (normalize_data(g)).astype(np.uint8)
NormalizeGreen ==
  /\ pc = "norm_g"
  /\ mem' \in NormalizedChannel(mem, g)
  /\ g' = Len(mem')
  /\ pc' = "norm_b"
  /\ UNCHANGED <<agg, outs, chans, bands, r, b, a, img>>

\* b = (normalize_data(b)).astype(np.uint8)
NormalizeBlue ==
  /\ pc = "norm_b"
  /\ mem' \in NormalizedChannel(mem, b)
  /\ b' = Len(mem')
  /\ pc' = "pack"
  /\ UNCHANGED <<agg, outs, chans, bands, r, g, a, img>>

\* img = np.dstack([r, g, b, a]).view(np.uint32).reshape(r.shape)
\* return tf.Image(data=img)
Pack ==
  /\ pc = "pack"
  /\ mem' = Append(mem, PackImage(mem[r], mem[g], mem[b], mem[a]))
  /\ img' = Len(mem) + 1
  /\ pc' = "done"
  /\ UNCHANGED <<agg, outs, chans, bands, r, g, b, a>>

Next == ComputeAlpha \/ NormalizeRed \/ NormalizeGreen \/ NormalizeBlue \/ Pack

Spec == Init /\ [][Next]_vars


(* ----------------------------- properties ----------------------------- *)

\* The cells of an array, as indices of its buffer.
Cells(arr) == 1 .. Size(arr.shape)

\* Whether the raw sample at cell i is NaN, and twice its value if not.
IsNaNSample(arr, i) == IsFloat(arr.dtype) /\ arr.data[i].nan

Twice(arr, i) == IF IsFloat(arr.dtype) THEN arr.data[i].half ELSE 2 * arr.data[i]

\* Whether every cell of the array holds the sensor count v.
AllCount(arr, v) == \A i \in Cells(arr) : ~IsNaNSample(arr, i) /\ Twice(arr, i) = 2 * v

\* Whether the raw sample at cell i lies in [0, 65535].
InRange(arr, i) ==
  ~IsNaNSample(arr, i) /\ 0 <= Twice(arr, i) /\ Twice(arr, i) <= 2 * 65535

\* The curve of the specification at the sample v = t / 2,
\*     y(v) = 255 / (1 + exp(40 * (0.125 - v / 65535))),
\* whose exponent is 40 * (65535 - 8 * v) units of 1 / (8 * 65535):
\* floor(2 * y(v)), the truncation of y(v) and y(v) rounded to the nearest
\* integer.
CurveHalf(t) == HalfLevel(40 * (65535 - 4 * t))

CurveTrunc(t) == CurveHalf(t) \div 2

CurveRound(t) == (CurveHalf(t) + 1) \div 2

\* e1 <= e2 for two elements, neither NaN, of an array normalize_data
\* returned.  Floats are compared by floor(2 * f) first; of two floats with
\* the same floor(2 * f) a multiple of 1/2 is the least, and two values of
\* the curve are in the reverse order of their exponents.
LeqOut(dt, e1, e2) ==
  IF ~IsFloat(dt) THEN e1 <= e2
  ELSE IF e1.half # e2.half THEN e1.half < e2.half
  ELSE IF e1.exact THEN TRUE
  ELSE IF e2.exact THEN FALSE
  ELSE e1.arg >= e2.arg

\* Whether an element of an array normalize_data returned lies in [0, 255],
\* and its integer part.
InByteRange(dt, e) ==
  IF IsFloat(dt)
    THEN ~e.nan /\ e.half >= 0 /\ (e.half < 2 * 255 \/ (e.half = 2 * 255 /\ e.exact))
    ELSE 0 <= e /\ e <= 255

IntPart(dt, e) == IF IsFloat(dt) THEN e.half \div 2 ELSE e

\* C2 as stated: for every array and every cell whose sample is a value v
\* in [0, 65535], the 8-bit channel value (normalize_data, then the cast) is
\* the truncation of y(v).
C2_ByteIsTruncatedCurve ==
  agg # 0 =>
    \A k \in 1 .. Len(chans) : \A i \in Cells(mem[agg]) :
      InRange(mem[agg], i) =>
        mem[chans[k]].data[i] = CurveTrunc(Twice(mem[agg], i))

\* C3 as stated: for an array of zeros the 8-bit channel value is y(0)
\* rounded to the nearest integer at every cell.
C3_ZeroGivesRoundedCurve ==
  (agg # 0 /\ AllCount(mem[agg], 0)) =>
    \A k \in 1 .. Len(chans) : \A i \in Cells(mem[agg]) :
      mem[chans[k]].data[i] = CurveRound(2 * 0)

\* C3 amended: for an array of zeros the output is y(0) = 1.7066...
\* truncated, not rounded: the 8-bit channel value is 1 at every cell (the
\* rounded value is 2); the array normalize_data returns holds 1 when the
\* input is an integer array (0 / 65535 is 0 under floor division too) and
\* the unrounded y(0), strictly between 1.5 and 2, when it is a float array.
C3_ZeroGivesTruncatedCurve ==
  (agg # 0 /\ AllCount(mem[agg], 0)) =>
    /\ CurveTrunc(2 * 0) = 1 /\ CurveRound(2 * 0) = 2
    /\ \A k \in 1 .. Len(chans) : \A i \in Cells(mem[agg]) :
         mem[chans[k]].data[i] = CurveTrunc(2 * 0)
    /\ \A k \in 1 .. Len(outs) : \A i \in Cells(mem[agg]) :
         LET e == mem[outs[k]].data[i]
         IN  IF IsFloat(mem[agg].dtype)
               THEN ~e.nan /\ ~e.exact /\ e.half = 3
               ELSE e = CurveTrunc(2 * 0)

\* C3 witness: a two-cell array of zeros has been normalized and cast to 1.
C3_Witness ==
  /\ agg # 0 /\ Len(chans) >= 1
  /\ Size(mem[agg].shape) = 2 /\ AllCount(mem[agg], 0)
  /\ \A i \in Cells(mem[agg]) : mem[chans[1]].data[i] = 1

\* C4 as stated: for an array whose samples are all 65535 the 8-bit channel
\* value is y(65535) rounded to the nearest integer, 255, at every cell.
C4_MaxGivesRoundedCurve ==
  (agg # 0 /\ AllCount(mem[agg], 65535)) =>
    \A k \in 1 .. Len(chans) : \A i \in Cells(mem[agg]) :
      mem[chans[k]].data[i] = CurveRound(2 * 65535)

\* C4 amended: for an array whose samples are all 65535 the 8-bit channel
\* value is the truncation of y(65535) = 254.99..., that is 254, at every
\* cell of an integer array (65535 / 65535 is 1 under floor division too) or
\* a float64 array, and 255 at every cell of a float32 array, whose stored
\* value is the float32 nearest to y(65535), 255.0.
C4_MaxGivesTruncatedStoredCurve ==
  (agg # 0 /\ AllCount(mem[agg], 65535)) =>
    /\ CurveTrunc(2 * 65535) = 254 /\ CurveRound(2 * 65535) = 255
    /\ \A k \in 1 .. Len(chans) : \A i \in Cells(mem[agg]) :
         mem[chans[k]].data[i] =
           IF mem[agg].dtype = "float32" THEN 255 ELSE CurveTrunc(2 * 65535)
    /\ \A k \in 1 .. Len(outs) : \A i \in Cells(mem[agg]) :
         LET e == mem[outs[k]].data[i]
         IN  CASE mem[agg].dtype = "float32" -> e = Flt(255)
               [] mem[agg].dtype = "float64" -> ~e.nan /\ ~e.exact /\ e.half = 509
               [] OTHER -> e = 254

\* C4 witness: a two-cell float64 array of 65535s has been normalized and
\* cast to 254.
C4_Witness ==
  /\ agg # 0 /\ Len(chans) >= 1
  /\ mem[agg].dtype = "float64"
  /\ Size(mem[agg].shape) = 2 /\ AllCount(mem[agg], 65535)
  /\ \A i \in Cells(mem[agg]) : mem[chans[1]].data[i] = 254

\* C5: normalize_data is non-decreasing: of two cells whose samples are any
\* two values v1 <= v2, neither NaN, inside or outside [0, 65535], the first
\* has the smaller or equal output, and the smaller or equal 8-bit channel
\* value after the cast.
C5_Monotone ==
  agg # 0 =>
    \A i, j \in Cells(mem[agg]) :
      (/\ ~IsNaNSample(mem[agg], i) /\ ~IsNaNSample(mem[agg], j)
       /\ Twice(mem[agg], i) <= Twice(mem[agg], j)) =>
        /\ \A k \in 1 .. Len(outs) :
             LeqOut(mem[agg].dtype, mem[outs[k]].data[i], mem[outs[k]].data[j])
        /\ \A k \in 1 .. Len(chans) :
             mem[chans[k]].data[i] <= mem[chans[k]].data[j]

\* C5 witness: a float64 array with a sample below 0, for which np.exp
\* overflows, and a sample above 65535 has been normalized and cast: the
\* first to 0.0 and the byte 0, the second to a larger value and byte.
C5_Witness ==
  /\ agg # 0 /\ Len(chans) >= 1
  /\ mem[agg].dtype = "float64"
  /\ \E i, j \in Cells(mem[agg]) :
       /\ ~IsNaNSample(mem[agg], i) /\ ~IsNaNSample(mem[agg], j)
       /\ Twice(mem[agg], i) < 0 /\ Twice(mem[agg], j) > 2 * 65535
       /\ mem[outs[1]].data[i] = Flt(0)
       /\ mem[outs[1]].data[i].half < mem[outs[1]].data[j].half
       /\ mem[chans[1]].data[i] < mem[chans[1]].data[j]

\* C6: for a 2-D array whose samples all lie in [0, 65535],
\* normalize_data returns an array of the same shape whose values lie in
\* [0, 255], and the cast to uint8 gives the integer part of each value.
C6_OutputInByteRange ==
  (agg # 0 /\ \A i \in Cells(mem[agg]) : InRange(mem[agg], i)) =>
    /\ \A k \in 1 .. Len(outs) :
         /\ mem[outs[k]].shape = mem[agg].shape
         /\ Len(mem[outs[k]].shape) = 2
         /\ Len(mem[outs[k]].data) = Size(mem[agg].shape)
         /\ \A i \in Cells(mem[agg]) :
              InByteRange(mem[outs[k]].dtype, mem[outs[k]].data[i])
    /\ \A k \in 1 .. Len(chans) :
         /\ mem[chans[k]].shape = mem[agg].shape
         /\ \A i \in Cells(mem[agg]) :
              mem[chans[k]].data[i] =
                IntPart(mem[outs[k]].dtype, mem[outs[k]].data[i])

\* C6 witness: a 1 x 2 array of samples in [0, 65535] has been normalized
\* and cast; one of its values is above 254.5 and is cast to 254 or 255.
C6_Witness ==
  /\ agg # 0 /\ Len(chans) >= 1
  /\ \A i \in Cells(mem[agg]) : InRange(mem[agg], i)
  /\ mem[agg].shape = <<1, 2>>
  /\ IsFloat(mem[agg].dtype)
  /\ \E i \in Cells(mem[agg]) :
       /\ mem[outs[1]].data[i].half >= 509
       /\ mem[chans[1]].data[i] >= 254

\* C8: normalize_data is pure.  No step changes an array that exists (the
\* input stays as it was); every call returns a new array, neither the input
\* nor an array returned before; and every call on the same array returns
\* the same contents.
C8_Pure ==
  [][/\ \A id \in 1 .. Len(mem) : Len(mem') >= Len(mem) /\ mem'[id] = mem[id]
     /\ agg' # 0 =>
          \A k \in 1 .. Len(outs') :
            /\ outs'[k] # agg'
            /\ \A l \in 1 .. Len(outs') : l # k => outs'[l] # outs'[k]
            /\ mem'[outs'[k]] = mem'[outs'[1]]]_vars

\* C8 witness: normalize_data has returned twice on the same non-empty
\* array: two arrays, equal in contents, while the input is what it was.
C8_Witness ==
  /\ agg # 0 /\ Len(outs) = 2
  /\ Size(mem[agg].shape) >= 1
  /\ outs[1] # outs[2] /\ outs[1] # agg /\ outs[2] # agg
  /\ mem[outs[1]] = mem[outs[2]]
  /\ mem[agg] # mem[outs[1]]

\* The four bytes of a uint32 in address order on a little-endian machine.
PixelBytes(w) == <<w.lo % 256, w.lo \div 256, w.hi % 256, w.hi \div 256>>

\* The alpha of the mask rule of the specification for the raw red sample
\* at cell i: 0 for NaN or a value <= the sentinel, else 255.
MaskRule(raw, i, sentinel) ==
  IF IsNaNSample(raw, i) \/ Twice(raw, i) <= 2 * sentinel THEN 0 ELSE 255

\* C1: at every cell the alpha byte of the image combine_bands returns is 0
\* or 255: 0 when the raw red sample is NaN or <= the sentinel, else 255.
\* With nodata = 1, a raw red 1 gives alpha 0 and a raw red 2 alpha 255.
C1_AlphaIsMask ==
  pc = "done" =>
    \A i \in Cells(mem[bands[1]]) :
      LET raw   == mem[bands[1]]
          alpha == PixelBytes(mem[img].data[i])[4]
      IN  /\ alpha \in {0, 255}
          /\ alpha = 0 <=> (IsNaNSample(raw, i) \/ Twice(raw, i) <= 2 * nodata)
          /\ alpha = MaskRule(raw, i, 1)
          /\ (~IsNaNSample(raw, i) /\ Twice(raw, i) = 2 * 1) => alpha = 0
          /\ (~IsNaNSample(raw, i) /\ Twice(raw, i) = 2 * 2) => alpha = 255

\* C1 witness: an image has been returned for a red band with a cell of
\* count 1, which is transparent, and a cell of count 2, which is opaque.
C1_Witness ==
  /\ pc = "done"
  /\ \E i, j \in Cells(mem[bands[1]]) :
       /\ ~IsNaNSample(mem[bands[1]], i) /\ Twice(mem[bands[1]], i) = 2 * 1
       /\ PixelBytes(mem[img].data[i])[4] = 0
       /\ ~IsNaNSample(mem[bands[1]], j) /\ Twice(mem[bands[1]], j) = 2 * 2
       /\ PixelBytes(mem[img].data[j])[4] = 255

\* C7: the image combine_bands returns has the 2-D shape of its three
\* inputs: one pixel per grid cell and no channel axis.
C7_ImageShape ==
  pc = "done" =>
    /\ \A k \in 1 .. 3 : mem[img].shape = mem[bands[k]].shape
    /\ Len(mem[img].shape) = 2
    /\ Len(mem[img].data) = mem[img].shape[1] * mem[img].shape[2]
    /\ mem[img].dtype = "uint32"

\* C7 witness: an image of shape 2 x 1 has been returned.
C7_Witness ==
  /\ pc = "done"
  /\ mem[bands[1]].shape = <<2, 1>>
  /\ mem[img].shape = <<2, 1>>
  /\ Len(mem[img].data) = 2

\* C9: at every cell the four bytes of the 32-bit pixel are, from the
\* lowest address up, the cell's normalized red, green and blue channel
\* values and its alpha; each is one byte, and the channels are new arrays,
\* not the raw bands.
C9_PackedRGBA ==
  pc = "done" =>
    /\ {r, g, b, a} \cap {bands[1], bands[2], bands[3]} = {}
    /\ \A i \in Cells(mem[bands[1]]) :
         /\ PixelBytes(mem[img].data[i]) =
              <<mem[r].data[i], mem[g].data[i], mem[b].data[i], mem[a].data[i]>>
         /\ \A n \in 1 .. 4 : PixelBytes(mem[img].data[i])[n] \in 0 .. 255

\* C9 witness: a two-cell image has been returned whose cells differ and
\* one of whose cells has four different bytes.
C9_Witness ==
  /\ pc = "done"
  /\ Size(mem[bands[1]].shape) = 2
  /\ mem[img].data[1] # mem[img].data[2]
  /\ Cardinality({PixelBytes(mem[img].data[1])[n] : n \in 1 .. 4}) = 4
  /\ PixelBytes(mem[img].data[1])[1] = mem[r].data[1]

\* C10: the alpha mask is computed before any band is normalized and from
\* the raw red band alone.  Up to and including the step that follows the
\* mask r, g and b are the raw arrays; once the mask exists (from that step
\* on), in every run, whatever the green and blue
\* samples are, the mask at a cell is the mask rule of the raw red sample of
\* that cell, so a cell whose raw red exceeds the sentinel is opaque.  In the
\* returned image two channel values, of any bands and cells, are equal
\* whenever their raw samples are the same value.
C10_AlphaFromRawRedOnly ==
  /\ pc \in {"alpha", "norm_r"} => <<r, g, b>> = bands
  /\ pc # "alpha" =>
       /\ a # 0
       /\ \A i \in Cells(mem[bands[1]]) :
            /\ mem[a].data[i] = MaskRule(mem[bands[1]], i, nodata)
            /\ (~IsNaNSample(mem[bands[1]], i) /\ Twice(mem[bands[1]], i) > 2 * nodata)
                 => mem[a].data[i] = 255
  /\ pc = "done" =>
       \A k1, k2 \in 1 .. 3 : \A i1, i2 \in Cells(mem[bands[1]]) :
         (/\ ~IsNaNSample(mem[bands[k1]], i1)
          /\ mem[bands[k1]].data[i1] = mem[bands[k2]].data[i2]) =>
           /\ mem[<<r, g, b>>[k1]].data[i1] = mem[<<r, g, b>>[k2]].data[i2]
           /\ PixelBytes(mem[img].data[i1])[k1] = PixelBytes(mem[img].data[i2])[k2]

\* C10 witness: an image has been returned with a cell whose raw red is 2,
\* above the sentinel, whose raw green and blue are 1, no data, and which is
\* opaque; another cell has the same raw red and another green.
C10_Witness ==
  /\ pc = "done"
  /\ \E i, j \in Cells(mem[bands[1]]) :
       /\ i # j
       /\ Twice(mem[bands[1]], i) = 2 * 2 /\ ~IsNaNSample(mem[bands[1]], i)
       /\ Twice(mem[bands[2]], i) = 2 * 1 /\ Twice(mem[bands[3]], i) = 2 * 1
       /\ PixelBytes(mem[img].data[i])[4] = 255
       /\ mem[bands[1]].data[j] = mem[bands[1]].data[i]
       /\ mem[bands[2]].data[j] # mem[bands[2]].data[i]
       /\ PixelBytes(mem[img].data[j])[4] = 255
=============================================================================
